---- MODULE Spec2Model ----
(***************************************************************************)
(* Model of xenonpy/utils/functional.py: the Timer registry with its       *)
(* nested stopwatch class, its context-manager protocol, the `timed`       *)
(* wrapper, the class hook TimedMetaClass with the constructor it injects, *)
(* and the set_env context manager.  The __name__ of the class that        *)
(* TimedMetaClass builds is not part of the state.                         *)
(*                                                                         *)
(* Clock readings are naturals.  The registry reads its clock through      *)
(* self._func (variable clock); the nested stopwatch's elapsed property    *)
(* reads time.perf_counter() (variable perf).  With Timer() the two are    *)
(* the same clock (offset 0); with Timer(time_func=f) the clock f is       *)
(* taken to run at perf_counter's rate from another origin (offset # 0).   *)
(***************************************************************************)
EXTENDS Integers, Sequences, FiniteSets, TLC

VARIABLES
    timers,     \* Timer._timers: stopwatch name -> [start, times]
    clock,      \* current reading of Timer._func
    perf,       \* current reading of time.perf_counter
    offset,     \* reading of Timer._func minus reading of time.perf_counter
    last,       \* the call the client made last, with its outcome
    hist,       \* per name: the successful starts and stops so far
    withPc,     \* "out" or "body": inside `with timer:` or not
    stack,      \* timed wrappers in progress on the instance, innermost last
    exc,        \* error raised into the body of the innermost frame, or NoError
    lastExit,   \* the timed wrapper that exited last: callable's and wrapper's outcome
    spans,      \* per method, for each completed call: exit reading minus entry reading
    hasTimer,   \* TRUE iff the instance has the attribute _timer
    cls,        \* the class statement given to TimedMetaClass and the class built
    objs,       \* the instances constructed from that class, in order
    nextTimer,  \* identity the next Timer() object gets
    env,        \* os.environ: variable -> value, or Unset
    envCtx      \* the set_env context in progress or just left

vars == <<timers, clock, perf, offset, last, hist, withPc,
          stack, exc, lastExit, spans, hasTimer,
          cls, objs, nextTimer, env, envCtx>>

regVars == <<timers, clock, perf, offset, last, hist, withPc>>
objVars == <<stack, exc, lastExit, spans, hasTimer>>
clsVars == <<cls, objs, nextTimer>>
envVars == <<env, envCtx>>

-----------------------------------------------------------------------------
(* Bounds *)

MaxClock == 3       \* the clocks stop advancing at this reading
MaxStarts == 3      \* successful starts on one registry
MaxDepth == 2       \* nested timed calls on one instance
MaxCalls == 3       \* calls of timed methods on one instance
MaxObjs == 2        \* instances constructed from the class

-----------------------------------------------------------------------------
(* Values *)

None == -1                      \* Python's None in a slot that holds a reading
NoError == ""
AlreadyStarted == "RuntimeError: Timer Already started"
NotStarted == "RuntimeError: Timer not started"
NoTimedAttr == "AttributeError: 'Timer' object has no attribute 'timed'"
NoTimerAttr == "AttributeError: object has no attribute '_timer'"
UserErrors == {"ValueError: bad", "KeyError: k"}
UserValues == {"r1", "r2"}

\* Timer() has offset 0; a clock given as time_func may run behind or ahead
Offsets == {-1, 0, 1}

Names == {"main", "a", "b"}     \* stopwatch names the client uses
Methods == {"m", "k"}           \* public methods of the instrumented class

RECURSIVE SumSeq(_)
SumSeq(s) == IF s = <<>> THEN 0 ELSE Head(s) + SumSeq(Tail(s))

\* Python truthiness of `self.start`: None and 0 are both false
Truthy(x) == x # None /\ x # 0

-----------------------------------------------------------------------------
(* class Timer.__Timer *)

NewStopwatch == [start |-> None, times |-> <<>>]

SwElapsed(sw, pc) ==
    LET all_ == SumSeq(sw.times)
        dt == IF Truthy(sw.start) THEN pc - sw.start ELSE 0
    IN  all_ + dt

-----------------------------------------------------------------------------
(* class Timer *)

\* self._timers[fn_name] on a defaultdict: a missing key is inserted
Touch(t, n) == IF n \in DOMAIN t THEN t ELSE t @@ (n :> NewStopwatch)

\* start guarded by `if self._timers[fn_name].start:` instead of `is not None`
TimerStartTruthy(t, n, now) ==
    LET t1 == Touch(t, n) IN
    IF Truthy(t1[n].start)
    THEN [timers |-> t1, raised |-> AlreadyStarted]
    ELSE [timers |-> [t1 EXCEPT ![n].start = now], raised |-> NoError]

TimerStart(t, n, now) ==
    LET t1 == Touch(t, n) IN
    IF t1[n].start # None
    THEN [timers |-> t1, raised |-> AlreadyStarted]
    ELSE [timers |-> [t1 EXCEPT ![n].start = now], raised |-> NoError]

\* stop without the `start is None` guard
TimerStopNoGuard(t, n, now) ==
    LET t1 == Touch(t, n)
        elapsed == now - t1[n].start
    IN  [timers |-> [t1 EXCEPT ![n].times = Append(@, elapsed),
                               ![n].start = None],
         raised |-> NoError]

\* stop that records the clock reading instead of the difference
TimerStopReading(t, n, now) ==
    LET t1 == Touch(t, n) IN
    IF t1[n].start = None
    THEN [timers |-> t1, raised |-> NotStarted]
    ELSE [timers |-> [t1 EXCEPT ![n].times = Append(@, now),
                                ![n].start = None],
          raised |-> NoError]

TimerStop(t, n, now) ==
    LET t1 == Touch(t, n) IN
    IF t1[n].start = None
    THEN [timers |-> t1, raised |-> NotStarted]
    ELSE LET elapsed == now - t1[n].start IN
         [timers |-> [t1 EXCEPT ![n].times = Append(@, elapsed),
                                ![n].start = None],
          raised |-> NoError]

RECURSIVE SumElapsed(_, _, _)
SumElapsed(t, S, pc) ==
    IF S = {} THEN 0
    ELSE LET n == CHOOSE x \in S : TRUE
         IN  SwElapsed(t[n], pc) + SumElapsed(t, S \ {n}, pc)

\* aggregate that always sums, without the "main" shortcut
TimerElapsedSumAll(t, pc) == SumElapsed(t, DOMAIN t, pc)

TimerElapsed(t, pc) ==
    IF "main" \in DOMAIN t
    THEN SwElapsed(t["main"], pc)
    ELSE SumElapsed(t, DOMAIN t, pc)

\* aggregate that looks "main" up with self._timers['main'], which inserts it
TimerElapsedGetTouch(t, pc) ==
    [timers |-> Touch(t, "main"), value |-> TimerElapsed(t, pc),
     raised |-> NoError]

\* the property read as a call: `'main' in self._timers` and .values() do
\* not insert into the defaultdict
TimerElapsedGet(t, pc) ==
    [timers |-> t, value |-> TimerElapsed(t, pc), raised |-> NoError]

\* __call__ forwards to self.timed, and class Timer has no `timed`
TimerCall(t) == [timers |-> t, raised |-> NoTimedAttr]

TimerEnter(t, now) == TimerStart(t, "main", now)

\* __exit__ that releases only when the block ended without an error
TimerExitOnSuccess(t, bodyExc, now) ==
    IF bodyExc = NoError
    THEN TimerStop(t, "main", now)
    ELSE [timers |-> t, raised |-> NoError]

\* __exit__(*args) ignores its arguments and returns None
TimerExit(t, bodyExc, now) == TimerStop(t, "main", now)

\* What leaves a `with` statement whose __exit__ returned None or raised
WithOutcome(bodyExc, exitRaised) ==
    IF exitRaised # NoError THEN exitRaised ELSE bodyExc

-----------------------------------------------------------------------------
(* timed(fn): the wrapper fn_ *)

Returned(v) == [kind |-> "return", val |-> v]
Raised(e) == [kind |-> "raise", val |-> e]
NotInvoked == [kind |-> "none", val |-> ""]

\* self._timer.start(fn.__name__); self._timer is a plain attribute lookup
TimedEnter(has, t, m, now) ==
    IF ~has
    THEN [timers |-> t, raised |-> NoTimerAttr]
    ELSE TimerStart(t, m, now)

\* wrapper that stops the stopwatch when fn raises and then swallows the error
TimedLeaveSwallow(t, m, out, now) ==
    LET r == TimerStop(t, m, now) IN
    IF r.raised # NoError
    THEN [timers |-> r.timers, out |-> Raised(r.raised)]
    ELSE [timers |-> r.timers,
          out |-> IF out.kind = "raise" THEN Returned("None") ELSE out]

\* rt = fn(self, ...); self._timer.stop(fn.__name__); return rt
\* out is what fn did; an error of fn leaves fn_ at once
TimedLeave(t, m, out, now) ==
    IF out.kind = "raise"
    THEN [timers |-> t, out |-> out]
    ELSE LET r == TimerStop(t, m, now) IN
         IF r.raised # NoError
         THEN [timers |-> r.timers, out |-> Raised(r.raised)]
         ELSE [timers |-> r.timers, out |-> out]

-----------------------------------------------------------------------------
(* The client of one registry *)

NoCall == [op |-> "none", name |-> "", raised |-> NoError, value |-> 0,
           arg |-> NoError, ran |-> FALSE, pre |-> [n \in {} |-> NewStopwatch]]

\* begun: reading of the successful start not yet followed by a successful
\* stop; durs: for each completed pair, stop reading minus start reading;
\* starts: the number of successful starts
NewHist == [n \in Names |-> [begun |-> None, durs |-> <<>>, starts |-> 0]]

RECURSIVE CountStarts(_)
CountStarts(S) ==
    IF S = {} THEN 0
    ELSE LET n == CHOOSE x \in S : TRUE
         IN  Len(hist[n].durs) + (IF hist[n].begun # None THEN 1 ELSE 0)
               + CountStarts(S \ {n})

NStarts == CountStarts(Names)

Running(n) == hist[n].begun # None

Call(op, n, r, arg) ==
    [op |-> op, name |-> n, raised |-> r.raised, value |-> 0, arg |-> arg,
     ran |-> Running(n), pre |-> timers]

Start(n) ==
    LET r == TimerStart(timers, n, clock) IN
    /\ r.raised = NoError => NStarts < MaxStarts
    /\ timers' = r.timers
    /\ last' = Call("start", n, r, NoError)
    /\ hist' = IF r.raised = NoError
               THEN [hist EXCEPT ![n].begun = clock, ![n].starts = @ + 1]
               ELSE hist
    /\ UNCHANGED <<clock, perf, offset, withPc>>
    /\ UNCHANGED <<objVars, clsVars, envVars>>

Stop(n) ==
    LET r == TimerStop(timers, n, clock) IN
    /\ timers' = r.timers
    /\ last' = Call("stop", n, r, NoError)
    /\ hist' = IF r.raised = NoError
               THEN [hist EXCEPT ![n].durs = Append(@, clock - hist[n].begun),
                                 ![n].begun = None]
               ELSE hist
    /\ UNCHANGED <<clock, perf, offset, withPc>>
    /\ UNCHANGED <<objVars, clsVars, envVars>>

ReadElapsed ==
    LET r == TimerElapsedGet(timers, perf) IN
    /\ timers' = r.timers
    /\ last' = [NoCall EXCEPT !.op = "elapsed", !.pre = timers,
                              !.raised = r.raised, !.value = r.value]
    /\ UNCHANGED <<clock, perf, offset, hist, withPc>>
    /\ UNCHANGED <<objVars, clsVars, envVars>>

\* timer(...) with any arguments
CallTimer ==
    LET r == TimerCall(timers) IN
    /\ timers' = r.timers
    /\ last' = [NoCall EXCEPT !.op = "call", !.pre = timers,
                              !.raised = r.raised]
    /\ UNCHANGED <<clock, perf, offset, hist, withPc>>
    /\ UNCHANGED <<objVars, clsVars, envVars>>

ReadStopwatch(n) ==
    /\ n \in DOMAIN timers
    /\ last' = [NoCall EXCEPT !.op = "sw_elapsed", !.name = n, !.pre = timers,
                              !.ran = Running(n),
                              !.value = SwElapsed(timers[n], perf)]
    /\ UNCHANGED <<timers, clock, perf, offset, hist, withPc>>
    /\ UNCHANGED <<objVars, clsVars, envVars>>

Enter ==
    LET r == TimerEnter(timers, clock) IN
    /\ r.raised = NoError => NStarts < MaxStarts
    /\ timers' = r.timers
    /\ last' = Call("enter", "main", r, NoError)
    /\ hist' = IF r.raised = NoError
               THEN [hist EXCEPT !["main"].begun = clock,
                                 !["main"].starts = @ + 1]
               ELSE hist
    /\ withPc' = IF r.raised = NoError THEN "body" ELSE withPc
    /\ UNCHANGED <<clock, perf, offset>>
    /\ UNCHANGED <<objVars, clsVars, envVars>>

Exit(bodyExc) ==
    LET r == TimerExit(timers, bodyExc, clock) IN
    /\ withPc = "body"
    /\ timers' = r.timers
    /\ last' = [Call("exit", "main", r, bodyExc) EXCEPT
                    !.raised = WithOutcome(bodyExc, r.raised)]
    /\ hist' = IF r.raised = NoError
               THEN [hist EXCEPT !["main"].durs = Append(@, clock - hist["main"].begun),
                                 !["main"].begun = None]
               ELSE hist
    /\ withPc' = "out"
    /\ UNCHANGED <<clock, perf, offset>>
    /\ UNCHANGED <<objVars, clsVars, envVars>>

\* Time passes: both clocks advance by the same amount
Tick ==
    /\ clock < MaxClock
    /\ perf < MaxClock
    /\ clock' = clock + 1
    /\ perf' = perf + 1
    /\ last' = NoCall
    /\ UNCHANGED <<timers, offset, hist, withPc>>
    /\ UNCHANGED <<objVars, clsVars, envVars>>

-----------------------------------------------------------------------------
(* An instance of a class built by TimedMetaClass, and its callers *)

NoExit == [fn |-> "", orig |-> NotInvoked, wrapper |-> NotInvoked]

RECURSIVE CountCalls(_)
CountCalls(S) ==
    IF S = {} THEN 0
    ELSE LET m == CHOOSE x \in S : TRUE
         IN  Len(spans[m]) + CountCalls(S \ {m})

\* instance.m(...) by the outside caller or from the body of the innermost
\* timed method in progress
CallMethod(m) ==
    LET r == TimedEnter(hasTimer, timers, m, clock) IN
    /\ exc = NoError
    /\ Len(stack) < MaxDepth
    /\ CountCalls(Methods) + Len(stack) < MaxCalls
    /\ timers' = r.timers
    /\ IF r.raised = NoError
       THEN /\ stack' = Append(stack, [fn |-> m, entry |-> clock])
            /\ lastExit' = NoExit
            /\ UNCHANGED <<exc, spans>>
       ELSE /\ lastExit' = [fn |-> m, orig |-> NotInvoked,
                                     wrapper |-> Raised(r.raised)]
            /\ exc' = IF stack = <<>> THEN NoError ELSE r.raised
            /\ spans' = [spans EXCEPT ![m] = Append(@, 0)]
            /\ UNCHANGED stack
    /\ UNCHANGED <<clock, perf, offset, last, hist, withPc, hasTimer>>
    /\ UNCHANGED <<clsVars, envVars>>

\* the innermost original callable ends with `out`, and so does its wrapper
Leave(out) ==
    LET f == stack[Len(stack)]
        r == TimedLeave(timers, f.fn, out, clock)
        rest == SubSeq(stack, 1, Len(stack) - 1)
    IN  /\ timers' = r.timers
        /\ stack' = rest
        /\ lastExit' = [fn |-> f.fn, orig |-> out, wrapper |-> r.out]
        /\ exc' = IF r.out.kind = "raise" /\ rest # <<>>
                  THEN r.out.val ELSE NoError
        /\ spans' = [spans EXCEPT ![f.fn] = Append(@, clock - f.entry)]
        /\ UNCHANGED <<clock, perf, offset, last, hist, withPc, hasTimer>>
        /\ UNCHANGED <<clsVars, envVars>>

Return(v) ==
    /\ stack # <<>>
    /\ exc = NoError
    /\ Leave(Returned(v))

\* the body raises an error of its own, or lets the pending one through
Raise(e) ==
    /\ stack # <<>>
    /\ e \in (IF exc = NoError THEN UserErrors ELSE {exc})
    /\ Leave(Raised(e))

\* the body catches the error a nested call raised
Catch ==
    /\ stack # <<>>
    /\ exc # NoError
    /\ exc' = NoError
    /\ lastExit' = NoExit
    /\ UNCHANGED <<stack, spans, hasTimer>>
    /\ UNCHANGED <<regVars, clsVars, envVars>>

-----------------------------------------------------------------------------
(* TimedMetaClass.__new__ and the construction of instances *)

\* Attribute names are spelled out, since the hook looks at name[0]
AttrNames == {<<"m">>, <<"k">>, <<"_", "h">>}
AttrKinds == {"function", "method", "property", "classmethod",
              "staticmethod", "value"}
CtorArgs == {"x", "y"}

\* hook that looks at the value alone, not at the name
ShouldWrapAnyName(name, kind) == kind \in {"function", "method"}

\* name[0] != '_' and isinstance(value, (types.FunctionType, types.MethodType))
ShouldWrap(name, kind) ==
    name[1] # "_" /\ kind \in {"function", "method"}

\* The class built from the class body `body` (attr without '__init__');
\* ownInit says whether '__init__' is in attr.  timed: replaced by timed(value).
\* init: what the injected __init__ calls after it has set _timer.
MetaNew(body, ownInit) ==
    [attrs |-> [n \in DOMAIN body |->
                    [kind |-> body[n], timed |-> ShouldWrap(n, body[n])]],
     init |-> IF ownInit THEN "real_init" ELSE "nothing"]

NewObject(args) == [timer |-> 0, args |-> args, log |-> <<>>]

Event(ev, obj, args) == [ev |-> ev, args |-> args, timer |-> obj.timer]

\* injected __init__ that runs the class's own __init__ before it sets _timer
InjectedInitLate(init, obj, args, fresh) ==
    LET o1 == IF init = "real_init"
              THEN [obj EXCEPT !.log = Append(@, Event("real_init", obj, args))]
              ELSE obj
        o2 == [o1 EXCEPT !.timer = fresh]
    IN  [o2 EXCEPT !.log = Append(@, Event("set_timer", o2, ""))]

\* injected_init(self, *args, **kwargs) of either branch
InjectedInit(init, obj, args, fresh) ==
    LET o1 == [obj EXCEPT !.timer = fresh]
        o2 == [o1 EXCEPT !.log = Append(@, Event("set_timer", o1, ""))]
    IN  IF init = "real_init"
        THEN [o2 EXCEPT !.log = Append(@, Event("real_init", o2, args))]
        ELSE o2

NoClass == [defined |-> FALSE, ownInit |-> FALSE, baseInit |-> FALSE,
            body |-> [n \in {} |-> ""],
            built |-> [attrs |-> [n \in {} |-> ""], init |-> ""]]

\* class C(Base, metaclass=TimedMetaClass): ...
\* baseInit: Base, or a class above it other than object, defines __init__
DefineClass(body, ownInit, baseInit) ==
    /\ ~cls.defined
    /\ cls' = [defined |-> TRUE, ownInit |-> ownInit, baseInit |-> baseInit,
               body |-> body, built |-> MetaNew(body, ownInit)]
    /\ UNCHANGED <<objs, nextTimer>>
    /\ UNCHANGED <<regVars, objVars, envVars>>

\* C(args): the '__init__' found first is the injected one, in C's own dict
Construct(args) ==
    /\ cls.defined
    /\ Len(objs) < MaxObjs
    /\ objs' = Append(objs, InjectedInit(cls.built.init, NewObject(args),
                                         args, nextTimer))
    /\ nextTimer' = nextTimer + 1
    /\ UNCHANGED cls
    /\ UNCHANGED <<regVars, objVars, envVars>>

InitCls ==
    /\ cls = NoClass
    /\ objs = <<>>
    /\ nextTimer = 1

-----------------------------------------------------------------------------
(* set_env *)

Unset == "<unset>"              \* os.getenv(k) is None
EnvKeys == {"k1", "k2"}
OldValues == {Unset, "", "old"}
NewValues == {"new", "old"}

\* `not v` for what os.getenv returned: None and '' are both false
Falsy(v) == v = Unset \/ v = ""

\* up to the yield: tmp[k] = os.getenv(k); os.environ[k] = v
SetEnvBefore(e, kwargs) ==
    [tmp |-> [k \in DOMAIN kwargs |-> e[k]],
     env |-> [k \in EnvKeys |-> IF k \in DOMAIN kwargs THEN kwargs[k] ELSE e[k]]]

\* after the yield: del os.environ[k] if not v, else os.environ[k] = v
SetEnvAfter(e, tmp) ==
    [k \in EnvKeys |->
        IF k \in DOMAIN tmp
        THEN (IF Falsy(tmp[k]) THEN Unset ELSE tmp[k])
        ELSE e[k]]

\* an error thrown in at the yield leaves the generator there: no try/finally
SetEnvThrown(e, tmp) == e

NoCtx == [pc |-> "out", kwargs |-> [k \in {} |-> ""], tmp |-> [k \in {} |-> ""],
          before |-> [k \in {} |-> ""], raised |-> NoError]

EnvEnter(kwargs) ==
    LET r == SetEnvBefore(env, kwargs) IN
    /\ envCtx.pc # "in"
    /\ env' = r.env
    /\ envCtx' = [pc |-> "in", kwargs |-> kwargs, tmp |-> r.tmp,
                  before |-> env, raised |-> NoError]
    /\ UNCHANGED <<regVars, objVars, clsVars>>

\* the block ends normally
EnvExit ==
    /\ envCtx.pc = "in"
    /\ env' = SetEnvAfter(env, envCtx.tmp)
    /\ envCtx' = [envCtx EXCEPT !.pc = "left"]
    /\ UNCHANGED <<regVars, objVars, clsVars>>

\* the block raises e
EnvExitError(e) ==
    /\ envCtx.pc = "in"
    /\ env' = SetEnvThrown(env, envCtx.tmp)
    /\ envCtx' = [envCtx EXCEPT !.pc = "left", !.raised = e]
    /\ UNCHANGED <<regVars, objVars, clsVars>>

InitEnv ==
    /\ env = [k \in EnvKeys |-> Unset]
    /\ envCtx = NoCtx

InitObj ==
    /\ stack = <<>>
    /\ exc = NoError
    /\ lastExit = NoExit
    /\ spans = [m \in Methods |-> <<>>]

Init ==
    /\ timers = [n \in {} |-> NewStopwatch]
    /\ offset \in Offsets
    /\ perf = 1
    /\ clock = perf + offset
    /\ last = NoCall
    /\ hist = NewHist
    /\ withPc = "out"
    /\ hasTimer = TRUE
    /\ InitObj
    /\ InitCls
    /\ InitEnv

Next ==
    \/ \E n \in Names : Start(n)
    \* the block of a `with` leaves the release of "main" to __exit__
    \/ \E n \in Names : (withPc = "body" => n # "main") /\ Stop(n)
    \/ ReadElapsed
    \/ CallTimer
    \/ \E n \in Names : ReadStopwatch(n)
    \/ Enter
    \/ \E e \in UserErrors \cup {NoError} : Exit(e)
    \/ Tick

Spec == Init /\ [][Next]_vars

\* The instance is of a class built by TimedMetaClass, whose injected_init
\* did setattr(self, '_timer', Timer()), or of a plain class with a method
\* wrapped by timed, which has no _timer
InitTimed ==
    /\ timers = [n \in {} |-> NewStopwatch]
    /\ offset = 0
    /\ perf = 1
    /\ clock = perf
    /\ last = NoCall
    /\ hist = NewHist
    /\ withPc = "out"
    /\ hasTimer \in BOOLEAN
    /\ InitObj
    /\ InitCls
    /\ InitEnv

NextTimed ==
    \/ \E m \in Methods : CallMethod(m)
    \/ \E v \in UserValues : Return(v)
    \/ \E e \in UserErrors \cup {AlreadyStarted, NotStarted} : Raise(e)
    \/ Catch
    \/ Tick

SpecTimed == InitTimed /\ [][NextTimed]_vars

InitClass == InitTimed /\ hasTimer = TRUE

NextClass ==
    \/ \E body \in [AttrNames -> AttrKinds], ownInit, baseInit \in BOOLEAN :
            DefineClass(body, ownInit, baseInit)
    \/ \E args \in CtorArgs : Construct(args)

SpecClass == InitClass /\ [][NextClass]_vars

InitSetEnv ==
    /\ timers = [n \in {} |-> NewStopwatch]
    /\ offset = 0
    /\ perf = 1
    /\ clock = perf
    /\ last = NoCall
    /\ hist = NewHist
    /\ withPc = "out"
    /\ hasTimer = TRUE
    /\ InitObj
    /\ InitCls
    /\ env \in [EnvKeys -> OldValues]
    /\ envCtx = NoCtx

NextSetEnv ==
    \/ \E K \in SUBSET EnvKeys : \E kwargs \in [K -> NewValues] :
            EnvEnter(kwargs)
    \/ EnvExit
    \/ \E e \in UserErrors : EnvExitError(e)

SpecSetEnv == InitSetEnv /\ [][NextSetEnv]_vars

-----------------------------------------------------------------------------
(* Properties of the registry *)

TimesOf(t, n) == IF n \in DOMAIN t THEN t[n].times ELSE <<>>

\* C2: start(name) on a stopwatch that is running (a successful start with no
\* successful stop since) fails with AlreadyStarted and leaves the stopwatch's
\* start mark and completed durations as they were.
C2_StartWhileRunningFails ==
    (last.op = "start" /\ last.ran) =>
        /\ last.raised = AlreadyStarted
        /\ last.name \in DOMAIN last.pre
        /\ timers[last.name] = last.pre[last.name]

C2_Witness ==
    /\ last.op = "start"
    /\ last.ran
    /\ last.raised = AlreadyStarted
    /\ timers[last.name].start = 0

\* C3: stop(name) on a stopwatch that is not running (never started, or last
\* successfully stopped) fails with NotStarted and appends no duration.
C3_StopWhileIdleFails ==
    (last.op = "stop" /\ ~last.ran) =>
        /\ last.raised = NotStarted
        /\ TimesOf(timers, last.name) = TimesOf(last.pre, last.name)

C3_Witness ==
    /\ last.op = "stop"
    /\ ~last.ran
    /\ last.raised = NotStarted
    /\ Len(TimesOf(timers, last.name)) > 0

RECURSIVE TotalElapsed(_)
TotalElapsed(S) ==
    IF S = {} THEN 0
    ELSE LET n == CHOOSE x \in S : TRUE
         IN  (IF n \in DOMAIN timers THEN SwElapsed(timers[n], perf) ELSE 0)
               + TotalElapsed(S \ {n})

\* C5: the aggregate elapsed is the elapsed of the stopwatch named "main" when
\* the registry holds one, whatever the other stopwatches hold, and otherwise
\* the sum of the elapsed of all stopwatches (0 for an empty registry).
C5_AggregateElapsed ==
    last.op = "elapsed" =>
        /\ timers = last.pre
        /\ last.value = IF "main" \in DOMAIN timers
                        THEN SwElapsed(timers["main"], perf)
                        ELSE TotalElapsed(Names \ {"main"})

C5_Witness ==
    /\ last.op = "elapsed"
    /\ "main" \in DOMAIN timers
    /\ last.value = SwElapsed(timers["main"], perf)
    /\ TotalElapsed(Names \ {"main"}) > 0
    /\ last.value # TotalElapsed(Names)

\* C6: a stopwatch that is idle after N successful start/stop pairs holds
\* exactly N durations, the i-th being the clock reading at the i-th stop minus
\* the reading at the i-th start, and its elapsed is their sum.
C6_CompletedPairs ==
    \A n \in Names : ~Running(n) =>
        /\ TimesOf(timers, n) = hist[n].durs
        /\ n \in DOMAIN timers =>
              SwElapsed(timers[n], perf) = SumSeq(hist[n].durs)

C6_Witness ==
    \E n \in Names :
        /\ ~Running(n)
        /\ Len(hist[n].durs) >= 2
        /\ n \in DOMAIN timers
        /\ timers[n].times = hist[n].durs
        /\ SwElapsed(timers[n], perf) = SumSeq(hist[n].durs)
        /\ SumSeq(hist[n].durs) >= 2

C8_ElapsedNonNegative ==
    last.op \in {"elapsed", "sw_elapsed"} => last.value >= 0

\* C15: in every state reached by start and stop calls, each stopwatch is idle
\* (start mark unset) or running (start mark a clock reading); it is running
\* exactly when its successful starts outnumber its successful stops by one,
\* and idle exactly when they are equal; its completed list is as long as its
\* number of successful stops; and a stopwatch created by the first access to
\* an unseen name begins idle with an empty completed list.
C15_IdleOrRunning ==
    /\ \A n \in Names :
          LET stops == Len(hist[n].durs) IN
          IF n \in DOMAIN timers
          THEN /\ timers[n].start = None \/ timers[n].start \in 0..MaxClock
               /\ timers[n].start # None <=> hist[n].starts = stops + 1
               /\ timers[n].start = None <=> hist[n].starts = stops
               /\ Len(timers[n].times) = stops
          ELSE hist[n].starts = 0 /\ stops = 0
    /\ (last.op \in {"start", "stop"} /\ last.name \notin DOMAIN last.pre) =>
          /\ last.name \in DOMAIN timers
          /\ timers[last.name].times = <<>>
          /\ IF last.op = "stop"
             THEN timers[last.name] = NewStopwatch
             ELSE timers[last.name].start = clock

C15_Witness ==
    /\ last.op = "stop"
    /\ last.name \notin DOMAIN last.pre
    /\ timers[last.name] = NewStopwatch
    /\ \E n \in Names \ {last.name} :
          /\ n \in DOMAIN timers
          /\ timers[n].start # None
          /\ hist[n].starts = 2
          /\ Len(timers[n].times) = 1

\* C16: reading elapsed, of the registry or of a stopwatch, idle or running,
\* does not fail and changes nothing: the names, start marks and completed
\* lists are as before, and a second read with no clock advance in between
\* returns the same value.
C16_ReadOnlyElapsed ==
    /\ [](last.op \in {"elapsed", "sw_elapsed"} =>
              /\ last.raised = NoError
              /\ timers = last.pre)
    /\ [][(/\ last.op \in {"elapsed", "sw_elapsed"}
           /\ last'.op = last.op
           /\ last'.name = last.name
           /\ perf' = perf) => last'.value = last.value]_vars

C16_Witness ==
    /\ last.op = "elapsed"
    /\ last.raised = NoError
    /\ timers = last.pre
    /\ "main" \notin DOMAIN timers
    /\ last.value > 0
    /\ \E n \in DOMAIN timers : timers[n].start # None

\* C17: calling the registry as a function, with any arguments, does not fail
\* and leaves every stopwatch as it was.
C17_CallIsNoOp ==
    last.op = "call" =>
        /\ last.raised = NoError
        /\ timers = last.pre

\* C18: a start or stop that fails leaves the aggregate elapsed as it was just
\* before the call, for every name, "main" on a registry that has other
\* stopwatches but never saw "main" included.
C18_FailedCallKeepsElapsed ==
    (last.op \in {"start", "stop"} /\ last.raised # NoError) =>
        TimerElapsed(timers, perf) = TimerElapsed(last.pre, perf)

-----------------------------------------------------------------------------
(* Properties of the timed wrapper *)

\* C1: when the original callable raises, stop still runs before the error
\* reaches the caller: after the failed call the stopwatch named after the
\* callable is idle.
C1_StoppedAfterError ==
    lastExit.orig.kind = "raise" =>
        /\ lastExit.fn \in DOMAIN timers
        /\ timers[lastExit.fn].start = None

\* C9: once N calls of instance.m() have completed, the stopwatch "m" holds
\* exactly N durations, each the clock reading at m's exit minus the reading
\* at m's entry, and no stopwatch of the instance's registry is running.
C9_CallsAccumulate ==
    (stack = <<>> /\ exc = NoError) =>
        /\ \A m \in Methods : TimesOf(timers, m) = spans[m]
        /\ \A n \in DOMAIN timers : timers[n].start = None

\* C10: the wrapper hands on what the original callable did: the error it
\* raised, with its type and message, or the value it returned.
C10_OutcomePreserved ==
    lastExit.orig.kind # "none" => lastExit.wrapper = lastExit.orig

C10_Witness ==
    /\ lastExit.orig.kind = "raise"
    /\ lastExit.orig.val \in UserErrors
    /\ lastExit.wrapper = lastExit.orig
    /\ stack # <<>>

OnStack(m) == \E i \in 1..Len(stack) : stack[i].fn = m

\* C11: a timed callable invoked on an instance that has no registry yet
\* creates the registry on the instance and goes on with start, the original
\* call and stop, instead of failing.
C11_LazyRegistry ==
    lastExit.fn # "" =>
        /\ hasTimer
        /\ lastExit.wrapper # Raised(NoTimerAttr)

\* C19: a timed method that, while it runs, invokes a timed method of the same
\* name on the same instance gets that call carried out: the original callable
\* is invoked and its result handed back, and once the outer call has returned
\* the stopwatch of that name is idle.
C19_ReentrantCall ==
    /\ (lastExit.fn # "" /\ hasTimer /\ OnStack(lastExit.fn)) =>
            /\ lastExit.orig.kind # "none"
            /\ lastExit.wrapper = lastExit.orig
    /\ (lastExit.wrapper.kind = "return" /\ ~OnStack(lastExit.fn)) =>
            timers[lastExit.fn].start = None

-----------------------------------------------------------------------------
(* Properties of TimedMetaClass *)

SetTimerFirst(o) ==
    /\ Len(o.log) >= 1
    /\ o.log[1].ev = "set_timer"
    /\ o.timer # 0
    /\ o.log[1].timer = o.timer

\* C12: constructing an instance attaches a fresh registry before the class's
\* own constructor body runs, whether the class defines a constructor or not;
\* a constructor the class defines then runs with the original arguments and
\* finds the registry present; no two instances share a registry.
C12_RegistryBeforeInit ==
    /\ \A i \in 1..Len(objs) :
          LET o == objs[i] IN
          /\ SetTimerFirst(o)
          /\ cls.ownInit =>
                /\ Len(o.log) = 2
                /\ o.log[2] = [ev |-> "real_init", args |-> o.args,
                               timer |-> o.timer]
          /\ ~cls.ownInit => \A j \in 1..Len(o.log) : o.log[j].ev # "real_init"
    /\ \A i, j \in 1..Len(objs) : i # j => objs[i].timer # objs[j].timer

C12_Witness ==
    /\ cls.ownInit
    /\ Len(objs) = 2
    /\ objs[1].timer # objs[2].timer
    /\ objs[1].args # objs[2].args
    /\ \A i \in 1..2 : objs[i].log[2].ev = "real_init"
                       /\ objs[i].log[2].timer = objs[i].timer

C20_InheritedInitRuns ==
    (cls.defined /\ ~cls.ownInit /\ cls.baseInit) =>
        \A i \in 1..Len(objs) :
            /\ SetTimerFirst(objs[i])
            /\ \E j \in 2..Len(objs[i].log) :
                  /\ objs[i].log[j].ev = "base_init"
                  /\ objs[i].log[j].args = objs[i].args

-----------------------------------------------------------------------------
(* Properties of set_env *)

\* C14: inside a `with set_env` block each named variable has the given
\* value, and after the block, left normally or by an error, each named
\* variable has the value it had before entry, unset if it was unset.
C14_EnvRestored ==
    /\ envCtx.pc = "in" =>
          \A k \in DOMAIN envCtx.kwargs : env[k] = envCtx.kwargs[k]
    /\ envCtx.pc = "left" =>
          \A k \in DOMAIN envCtx.kwargs : env[k] = envCtx.before[k]

====
